---- MODULE Spec2Model ----
(***************************************************************************)
(* Session admission, queueing and lifecycle core of InferenceAPI          *)
(* (demo/backend/server/inference/predictor.py) with its QueueManager      *)
(* (demo/backend/server/data/queue_manager.py).                            *)
(*                                                                         *)
(* Every `with self.queue_lock:` block of the source is one atomic action; *)
(* the code between two such blocks of one handler is a position of that   *)
(* handler (start_pending, close_pending, reaper) where other threads      *)
(* interleave.  Threads started with Thread(...).start() are pending work  *)
(* items (pump_pending, init_waiting).  Time is a bounded integer clock.   *)
(* Saves to the queue file succeed in this specification.  The initial     *)
(* states are those after construction over the queue file a previous run  *)
(* of the server left behind.                                              *)
(***************************************************************************)
EXTENDS Integers, Sequences, FiniteSets, TLC

VARIABLES
    session_queue,        \* self.session_queue: list of (session_id, request, enqueue_time)
    active_sessions,      \* self.active_sessions: set of session ids
    session_metadata,     \* self.session_metadata: dict session_id -> row
    session_states,       \* self.session_states: dict session_id -> session
    avg_processing_time,  \* self.avg_processing_time, the decimal num / 10^exp as <<num, exp>>
    queue_file,           \* content of queue_data.json
    inference_lock,       \* self.inference_lock: its holder
    start_pending,        \* start_session calls between their first and second locked block
    close_pending,        \* close_session calls after their locked block
    pump_pending,         \* number of _process_queue runs started and not yet executed
    init_waiting,         \* _process_session threads waiting for inference_lock, per session
    init_except,          \* _process_session threads that raised, before their except block
    reaper,               \* position of _check_and_cleanup_sessions
    now,                  \* time.time()
    budget,               \* number of client requests the clients may still issue
    response,             \* the response returned by the step just taken
    server,               \* the process: "stopped", "constructing" (in __init__) or "running"
    saving,               \* QueueManager.save_queue in progress: its position
    propagation,          \* propagate_in_video generators, per session: their position
    queue_lock,           \* self.queue_lock: its holder
    cleanup_lock,         \* self.cleanup_lock: its holder
    threads               \* per handler thread: the path it runs and its position on it

vars == <<session_queue, active_sessions, session_metadata, session_states,
          avg_processing_time, queue_file, inference_lock, start_pending,
          close_pending, pump_pending, init_waiting, init_except, reaper,
          now, budget, response, server, saving, propagation, queue_lock,
          cleanup_lock, threads>>

\* the two locks whose blocks are single steps wherever the handlers are modelled
\* by their effect on the data, and the positions of the handler threads
lock_vars == <<queue_lock, cleanup_lock, threads>>

\* the process state, the save in progress, the generators, and lock_vars
process_vars == <<server, saving, propagation, lock_vars>>

(***************************************************************************)
(* Bounds of the model.                                                    *)
(***************************************************************************)
NumSessions == 3
MaxCalls == 2
MaxTime == 1
MaxOps == 4
MaxFrames == 1
\* the value of self.max_concurrent_sessions in the specification of the pump
\* with more than one slot
PumpCap == 2
\* the number of handler threads that run at the same time in the lock-level
\* specification
MaxThreads == 3
\* self.max_concurrent_sessions and self.session_timeout (seconds) are attributes set
\* in __init__ (5 and 300); the model runs them at small values
max_concurrent_sessions == 1
session_timeout == 0

SessionIds == 1..NumSessions

(***************************************************************************)
(* Program constants.                                                      *)
(***************************************************************************)
InitialAvgProcessingTime == 60

(***************************************************************************)
(* Decimal arithmetic for avg_processing_time.                             *)
(***************************************************************************)
RECURSIVE Pow10(_)
Pow10(n) == IF n = 0 THEN 1 ELSE 10 * Pow10(n - 1)

RECURSIVE Normalise(_, _)
Normalise(num, exp) ==
    IF exp > 0 /\ num % 10 = 0 THEN Normalise(num \div 10, exp - 1) ELSE <<num, exp>>

\* 0.7 * avg + 0.3 * processing_time
SmoothAvg(avg, processing_time) ==
    Normalise(7 * avg[1] + 3 * processing_time * Pow10(avg[2]), avg[2] + 1)

\* int(position * avg_processing_time)
EstimatedWaitTimeRoundedUp(position, avg) ==
    (position * avg[1] + Pow10(avg[2]) - 1) \div Pow10(avg[2])
EstimatedWaitTime(position, avg) == (position * avg[1]) \div Pow10(avg[2])

(***************************************************************************)
(* Requests, responses, rows.                                              *)
(***************************************************************************)
StartSessionRequest(s) == [type |-> "start_session", session_id |-> s, path |-> s]

\* StartSession{session_id?, path, video_metadata?}: a request that carries the
\* optional video_metadata
StartSessionRequestWithMetadata(s) ==
    [type |-> "start_session", session_id |-> s, path |-> s,
     video_metadata |-> [width |-> s, height |-> s, fps |-> s, frame_count |-> s]]

\* StartSession{session_id?, path, video_metadata?, keep_frames_on_gpu?}: a
\* request that declares keep_frames_on_gpu
StartSessionRequestKeepingFrames(s) ==
    [type |-> "start_session", session_id |-> s, path |-> s,
     keep_frames_on_gpu |-> TRUE]

StartRequests(s) ==
    {StartSessionRequest(s), StartSessionRequestWithMetadata(s),
     StartSessionRequestKeepingFrames(s)}

StartSessionResponse(s, q, pos, wait) ==
    [op |-> "start_session", session_id |-> s, queued |-> q,
     queue_position |-> pos, estimated_wait_time |-> wait]

CloseSessionResponseFromBlock(s, ok) ==
    [op |-> "close_session", session_id |-> s, success |-> TRUE]
CloseSessionResponse(s, ok) == [op |-> "close_session", session_id |-> s, success |-> ok]

NoResponse == [op |-> "none"]

\* a row written by the enqueue branch has no 'processing_start_time' key
QueuedRow(enqueue_time) == [status |-> "queued", enqueue_time |-> enqueue_time]

ProcessingRow(enqueue_time) ==
    [status |-> "processing", enqueue_time |-> enqueue_time,
     processing_start_time |-> enqueue_time]

QueueEntry(s, enqueue_time) ==
    [session_id |-> s, request |-> StartSessionRequest(s), enqueue_time |-> enqueue_time]

SessionState(t) == [canceled |-> FALSE, last_active_time |-> t]

Put(f, k, v) == (k :> v) @@ f

Drop(f, k) == [x \in DOMAIN f \ {k} |-> f[x]]

SetStatusKept(meta, s, st) == meta
SetStatus(meta, s, st) ==
    IF s \in DOMAIN meta THEN [meta EXCEPT ![s].status = st] ELSE meta

QueueIds(q) == {q[i].session_id : i \in 1..Len(q)}

(***************************************************************************)
(* QueueManager.save_queue / load_queue.                                   *)
(***************************************************************************)
\* request_data.to_dict()
ToDictWithoutPath(request) == [type |-> request.type, session_id |-> request.session_id]
ToDict(request) ==
    LET required == [type |-> request.type, session_id |-> request.session_id,
                     path |-> request.path]
        described ==
            IF "video_metadata" \in DOMAIN request
            THEN Put(required, "video_metadata",
                     [width |-> request.video_metadata.width,
                      height |-> request.video_metadata.height,
                      fps |-> request.video_metadata.fps,
                      frame_count |-> request.video_metadata.frame_count])
            ELSE required
    IN  IF "keep_frames_on_gpu" \in DOMAIN request
        THEN Put(described, "keep_frames_on_gpu", request.keep_frames_on_gpu)
        ELSE described

save_queue(q) ==
    [i \in 1..Len(q) |->
        [session_id |-> q[i].session_id, request_data |-> ToDict(q[i].request),
         enqueue_time |-> q[i].enqueue_time]]

\* the file content where the JSON text ends in the middle of the array: the
\* file was opened with 'w' (emptied) and json.dump has not written it all
Truncated == [truncated |-> TRUE]

Torn(file) == \E i \in 1..Len(file) : "truncated" \in DOMAIN file[i]

\* the (session_id, request_data, enqueue_time) tuples of the file; [] when
\* json.load raises
load_queuePrefix(file) ==
    LET n == IF Torn(file)
             THEN (CHOOSE i \in 1..Len(file) : "truncated" \in DOMAIN file[i]) - 1
             ELSE Len(file)
    IN  [i \in 1..n |->
            <<file[i].session_id, file[i].request_data, file[i].enqueue_time>>]
load_queue(file) ==
    IF Torn(file) THEN <<>>
    ELSE [i \in 1..Len(file) |->
            <<file[i].session_id, file[i].request_data, file[i].enqueue_time>>]

\* self._persist_queue_state(already_has_lock=True)
_persist_queue_state(q) == save_queue(q)

(***************************************************************************)
(* _restore_queue_state: the queue and the metadata rebuilt from the       *)
(* loaded tuples whose request_data is a dict with a 'path'.               *)
(***************************************************************************)
Recognised(item) == "path" \in DOMAIN item[2]

\* 'video_metadata' in request_data and request_data['video_metadata'] is a dict
HasVideoMetadata(item) == "video_metadata" \in DOMAIN item[2]

\* the index of the first record at which the loop raises: VideoMetadata(...) is a
\* NameError, the name is not imported; 0 when the loop runs to its end
RestoreFailure(loaded) ==
    IF \E i \in 1..Len(loaded) : Recognised(loaded[i]) /\ HasVideoMetadata(loaded[i])
    THEN CHOOSE i \in 1..Len(loaded) :
            /\ Recognised(loaded[i]) /\ HasVideoMetadata(loaded[i])
            /\ \A j \in 1..(i - 1) : ~(Recognised(loaded[j]) /\ HasVideoMetadata(loaded[j]))
    ELSE 0

\* the local restored_queue when the loop ends or is left by the exception
Rebuilt(loaded) ==
    LET n == IF RestoreFailure(loaded) = 0 THEN Len(loaded)
             ELSE RestoreFailure(loaded) - 1
        kept == SelectSeq(SubSeq(loaded, 1, n), Recognised)
    IN  [i \in 1..Len(kept) |->
            [session_id |-> kept[i][1],
             request |-> [type |-> "start_session", session_id |-> kept[i][1],
                          path |-> kept[i][2].path],
             enqueue_time |-> kept[i][3]]]

\* self.session_queue = restored_queue is reached only when nothing raised
RestoredQueue(loaded) ==
    IF RestoreFailure(loaded) = 0 THEN Rebuilt(loaded) ELSE <<>>

\* if session_id not in self.session_metadata: the first record of an id wins;
\* the rows written before an exception stay
RestoredMetadata(loaded) ==
    LET q == Rebuilt(loaded)
    IN  [s \in QueueIds(q) |->
            QueuedRow(q[CHOOSE i \in 1..Len(q) :
                          /\ q[i].session_id = s
                          /\ \A j \in 1..(i - 1) : q[j].session_id # s].enqueue_time)]

(***************************************************************************)
(* Helpers of the handlers.                                                *)
(***************************************************************************)
\* existing_status in ['processing', 'completed']
IdempotentStatusesCompletedRestarts == {"processing"}
IdempotentStatuses == {"processing", "completed"}

\* need_queue = len(self.active_sessions) >= self.max_concurrent_sessions
NeedQueueOffByOne(active) == Cardinality(active) > max_concurrent_sessions
NeedQueue(active) == Cardinality(active) >= max_concurrent_sessions

\* queue_position = len(self.session_queue), read after the append
QueuePositionBeforeAppend(q) == Len(q) - 1
QueuePosition(q) == Len(q)

\* for i, (queued_id, _, _) in enumerate(queue): if queued_id == session_id: pop(i); break
FirstIndex(q, s) ==
    IF s \in QueueIds(q)
    THEN CHOOSE i \in 1..Len(q) :
            /\ q[i].session_id = s
            /\ \A j \in 1..(i - 1) : q[j].session_id # s
    ELSE 0

RemoveFirst(q, s) ==
    LET i == FirstIndex(q, s)
    IN  IF i = 0 THEN q ELSE SubSeq(q, 1, i - 1) \o SubSeq(q, i + 1, Len(q))

Add(f, s) == [f EXCEPT ![s] = @ + 1]
Sub(f, s) == [f EXCEPT ![s] = @ - 1]

(***************************************************************************)
(* The locked block of _process_queue on queue q, active set, metadata and *)
(* time t: the new values, whether the queue was persisted, the session    *)
(* whose _process_session thread is started (0: none) and whether a new    *)
(* _process_queue thread is started.  cap is self.max_concurrent_sessions.  *)
(***************************************************************************)
_process_queue_at(cap, q, active, meta, t) ==
    IF q = <<>> \/ Cardinality(active) >= cap
    THEN [queue |-> q, active |-> active, metadata |-> meta, persisted |-> FALSE,
          session |-> 0, again |-> FALSE]
    ELSE LET s == Head(q).session_id
         IN  IF s \in active \/ s \notin DOMAIN meta
             THEN [queue |-> Tail(q), active |-> active, metadata |-> meta,
                   persisted |-> FALSE, session |-> 0, again |-> TRUE]
             ELSE [queue |-> Tail(q), active |-> active \cup {s},
                   metadata |-> [meta EXCEPT
                                    ![s] = Put(Put(@, "status", "processing"),
                                               "processing_start_time", t)],
                   persisted |-> TRUE, session |-> s, again |-> FALSE]

_process_queue(q, active, meta, t) ==
    _process_queue_at(max_concurrent_sessions, q, active, meta, t)

Started(f, s) == IF s = 0 THEN f ELSE Add(f, s)

ReaperIdle == [pc |-> "idle", expired |-> {}, cur |-> 0, queue_updated |-> FALSE]

\* no save_queue call is between its open() and the end of its json.dump
SaveIdle == [pc |-> "idle"]

\* no propagate_in_video generator exists, none has run
NoPropagation ==
    [pc |-> "none", waiting |-> [s \in SessionIds |-> 0], empty_cache |-> 0]

\* a Lock() nobody holds
Unlocked == [holder |-> "none"]

\* the threads of the lock-level specification, one per handler
Handlers ==
    {"start_session", "close_session", "get_queue_status",
     "_check_and_cleanup_sessions", "_process_queue", "_process_session",
     "edit", "propagate_in_video", "cancel_propagate_in_video"}

\* a handler thread that is not running
Idle == [path |-> <<>>, pc |-> 0]

(***************************************************************************)
(* __init__: the state after construction over the file that holds queue   *)
(* q0: the queue is restored, then _process_queue runs once.  b is the     *)
(* number of requests the clients will issue.                              *)
(***************************************************************************)
Constructed(q0, b) ==
    LET file == save_queue(q0)
        loaded == load_queue(file)
        r == _process_queue(RestoredQueue(loaded), {}, RestoredMetadata(loaded), 0)
    IN  /\ session_queue = r.queue
        /\ active_sessions = r.active
        /\ session_metadata = r.metadata
        /\ session_states = <<>>
        /\ avg_processing_time = <<InitialAvgProcessingTime, 0>>
        /\ queue_file = IF r.persisted THEN _persist_queue_state(r.queue) ELSE file
        /\ inference_lock = [holder |-> "none"]
        /\ start_pending = <<>>
        /\ close_pending = <<>>
        /\ pump_pending = IF r.again THEN 1 ELSE 0
        /\ init_waiting = Started([s \in SessionIds |-> 0], r.session)
        /\ init_except = [s \in SessionIds |-> 0]
        /\ reaper = ReaperIdle
        /\ now = 0
        /\ budget = b
        /\ response = NoResponse
        /\ server = "running"
        /\ saving = SaveIdle
        /\ propagation = NoPropagation
        /\ queue_lock = Unlocked
        /\ cleanup_lock = Unlocked
        /\ threads = [h \in Handlers |-> Idle]

\* the queues a previous run can have persisted: sessions still waiting, enqueued
\* before the restart
PriorQueues == {[i \in 1..k |-> QueueEntry(i, 0)] : k \in 0..NumSessions}

Init == \E q0 \in PriorQueues : Constructed(q0, MaxCalls)

(***************************************************************************)
(* start_session, first locked block: the existence check and need_queue.  *)
(***************************************************************************)
StartCheck(s) ==
    /\ budget > 0
    /\ s \notin DOMAIN start_pending
    /\ budget' = budget - 1
    /\ IF s \in DOMAIN session_metadata
          /\ session_metadata[s].status \in IdempotentStatuses
       THEN /\ response' = StartSessionResponse(s, session_metadata[s].status = "queued", 0, 0)
            /\ UNCHANGED start_pending
       ELSE /\ start_pending' =
                Put(start_pending, s,
                    [need_queue |-> NeedQueue(active_sessions), enqueue_time |-> now])
            /\ response' = NoResponse
    /\ UNCHANGED <<session_queue, active_sessions, session_metadata, session_states,
                   avg_processing_time, queue_file, inference_lock, close_pending,
                   pump_pending, init_waiting, init_except, reaper, now>>
    /\ UNCHANGED process_vars

(***************************************************************************)
(* start_session, second locked block when need_queue: enqueue.            *)
(***************************************************************************)
StartEnqueue(s) ==
    /\ s \in DOMAIN start_pending
    /\ start_pending[s].need_queue
    /\ LET t == start_pending[s].enqueue_time
           q == Append(session_queue, QueueEntry(s, t))
           position == QueuePosition(q)
       IN  /\ session_metadata' = Put(session_metadata, s, QueuedRow(t))
           /\ session_queue' = q
           /\ queue_file' = _persist_queue_state(q)
           /\ response' = StartSessionResponse(s, TRUE, position,
                              EstimatedWaitTime(position, avg_processing_time))
    /\ start_pending' = Drop(start_pending, s)
    /\ UNCHANGED <<active_sessions, session_states, avg_processing_time, inference_lock,
                   close_pending, pump_pending, init_waiting, init_except, reaper,
                   now, budget>>
    /\ UNCHANGED process_vars

(***************************************************************************)
(* start_session, second locked block otherwise: activate and start the    *)
(* _process_session thread.                                                *)
(***************************************************************************)
StartActivate(s) ==
    /\ s \in DOMAIN start_pending
    /\ ~start_pending[s].need_queue
    /\ session_metadata' =
           Put(session_metadata, s, ProcessingRow(start_pending[s].enqueue_time))
    /\ active_sessions' = active_sessions \cup {s}
    /\ init_waiting' = Add(init_waiting, s)
    /\ response' = StartSessionResponse(s, FALSE, 0, 0)
    /\ start_pending' = Drop(start_pending, s)
    /\ UNCHANGED <<session_queue, session_states, avg_processing_time, queue_file,
                   inference_lock, close_pending, pump_pending, init_except, reaper,
                   now, budget>>
    /\ UNCHANGED process_vars

(***************************************************************************)
(* _process_queue: one run of the pump.                                    *)
(***************************************************************************)
ProcessQueue ==
    /\ pump_pending > 0
    /\ LET r == _process_queue(session_queue, active_sessions, session_metadata, now)
       IN  /\ session_queue' = r.queue
           /\ active_sessions' = r.active
           /\ session_metadata' = r.metadata
           /\ queue_file' = IF r.persisted THEN _persist_queue_state(r.queue)
                            ELSE queue_file
           /\ init_waiting' = Started(init_waiting, r.session)
           /\ pump_pending' = IF r.again THEN pump_pending ELSE pump_pending - 1
    /\ response' = NoResponse
    /\ UNCHANGED <<session_states, avg_processing_time, inference_lock, start_pending,
                   close_pending, init_except, reaper, now, budget>>
    /\ UNCHANGED process_vars

(***************************************************************************)
(* _process_session: the thread that initialises an activated session.     *)
(***************************************************************************)
\* with self.inference_lock: entered
InitAcquire(s) ==
    /\ init_waiting[s] > 0
    /\ inference_lock.holder = "none"
    /\ inference_lock' = [holder |-> "init", session_id |-> s]
    /\ init_waiting' = Sub(init_waiting, s)
    /\ response' = NoResponse
    /\ UNCHANGED <<session_queue, active_sessions, session_metadata, session_states,
                   avg_processing_time, queue_file, start_pending, close_pending,
                   pump_pending, init_except, reaper, now, budget>>
    /\ UNCHANGED process_vars

\* init_state returned: the session is stored, then the statistics are updated
\* (the row gets its processing_time, under inference_lock only); a row without
\* processing_start_time raises KeyError after the store
InitStore(s) ==
    /\ inference_lock = [holder |-> "init", session_id |-> s]
    /\ inference_lock' = [holder |-> "none"]
    /\ session_states' = Put(session_states, s, SessionState(now))
    /\ IF "processing_start_time" \notin DOMAIN session_metadata[s]
       THEN /\ init_except' = Add(init_except, s)
            /\ UNCHANGED <<session_metadata, avg_processing_time, pump_pending>>
       ELSE LET processing_time == now - session_metadata[s].processing_start_time
            IN  /\ session_metadata' =
                       [session_metadata EXCEPT
                           ![s] = Put(@, "processing_time", processing_time)]
                /\ avg_processing_time' =
                       SmoothAvg(avg_processing_time, processing_time)
                /\ pump_pending' = pump_pending + 1
                /\ UNCHANGED init_except
    /\ response' = NoResponse
    /\ UNCHANGED <<session_queue, active_sessions, queue_file,
                   start_pending, close_pending, init_waiting, reaper, now, budget>>
    /\ UNCHANGED process_vars

\* init_state raised
InitRaise(s) ==
    /\ inference_lock = [holder |-> "init", session_id |-> s]
    /\ inference_lock' = [holder |-> "none"]
    /\ init_except' = Add(init_except, s)
    /\ response' = NoResponse
    /\ UNCHANGED <<session_queue, active_sessions, session_metadata, session_states,
                   avg_processing_time, queue_file, start_pending, close_pending,
                   pump_pending, init_waiting, reaper, now, budget>>
    /\ UNCHANGED process_vars

\* except Exception: the locked block, then finally: self._process_queue()
InitExcept(s) ==
    /\ init_except[s] > 0
    /\ init_except' = Sub(init_except, s)
    /\ active_sessions' = active_sessions \ {s}
    /\ session_metadata' = SetStatus(session_metadata, s, "error")
    /\ pump_pending' = pump_pending + 1
    /\ response' = NoResponse
    /\ UNCHANGED <<session_queue, session_states, avg_processing_time, queue_file,
                   inference_lock, start_pending, close_pending, init_waiting, reaper,
                   now, budget>>
    /\ UNCHANGED process_vars

(***************************************************************************)
(* close_session: the locked block and the start of the pump thread.       *)
(***************************************************************************)
CloseSession(s) ==
    /\ budget > 0
    /\ s \notin DOMAIN close_pending
    /\ budget' = budget - 1
    /\ LET queue_updated == s \in QueueIds(session_queue)
           active_session_removed == s \in active_sessions
           q == RemoveFirst(session_queue, s)
       IN  /\ session_queue' = q
           /\ active_sessions' = active_sessions \ {s}
           /\ session_metadata' = SetStatus(session_metadata, s, "completed")
           /\ queue_file' = IF queue_updated THEN _persist_queue_state(q) ELSE queue_file
           /\ pump_pending' = IF queue_updated \/ active_session_removed
                              THEN pump_pending + 1 ELSE pump_pending
    /\ close_pending' = Put(close_pending, s, "clear")
    /\ response' = NoResponse
    /\ UNCHANGED <<session_states, avg_processing_time, inference_lock, start_pending,
                   init_waiting, init_except, reaper, now>>
    /\ UNCHANGED process_vars

\* __clear_session_state: session = self.session_states.pop(session_id, None)
CloseClear(s) ==
    /\ s \in DOMAIN close_pending
    /\ close_pending[s] = "clear"
    /\ IF s \in DOMAIN session_states
       THEN /\ session_states' = Drop(session_states, s)
            /\ close_pending' = Drop(close_pending, s)
            /\ response' = CloseSessionResponse(s, TRUE)
       ELSE /\ close_pending' = [close_pending EXCEPT ![s] = "mark"]
            /\ response' = NoResponse
            /\ UNCHANGED session_states
    /\ UNCHANGED <<session_queue, active_sessions, session_metadata, avg_processing_time,
                   queue_file, inference_lock, start_pending, pump_pending, init_waiting,
                   init_except, reaper, now, budget>>
    /\ UNCHANGED process_vars

\* __clear_session_state, session is None: the locked block that marks the row
CloseMark(s) ==
    /\ s \in DOMAIN close_pending
    /\ close_pending[s] = "mark"
    /\ session_metadata' = SetStatus(session_metadata, s, "completed")
    /\ close_pending' = Drop(close_pending, s)
    /\ response' = CloseSessionResponse(s, FALSE)
    /\ UNCHANGED <<session_queue, active_sessions, session_states, avg_processing_time,
                   queue_file, inference_lock, start_pending, pump_pending, init_waiting,
                   init_except, reaper, now, budget>>
    /\ UNCHANGED process_vars

(***************************************************************************)
(* _check_and_cleanup_sessions: the reaper.                                *)
(***************************************************************************)
\* inactive_time > self.session_timeout
ExpiredAtTimeout(states, t) ==
    {s \in DOMAIN states : t - states[s].last_active_time >= session_timeout}
Expired(states, t) ==
    {s \in DOMAIN states : t - states[s].last_active_time > session_timeout}

ReaperNext(r) ==
    IF r.expired = {} THEN [r EXCEPT !.pc = "persist", !.cur = 0]
    ELSE [r EXCEPT !.pc = "remove", !.cur = 0]

\* the scan under cleanup_lock; returns when nothing expired
ReaperCollect ==
    /\ reaper.pc = "idle"
    /\ LET expired_sessions == Expired(session_states, now)
       IN  reaper' = IF expired_sessions = {} THEN reaper
                     ELSE [pc |-> "remove", expired |-> expired_sessions, cur |-> 0,
                           queue_updated |-> FALSE]
    /\ response' = NoResponse
    /\ UNCHANGED <<session_queue, active_sessions, session_metadata, session_states,
                   avg_processing_time, queue_file, inference_lock, start_pending,
                   close_pending, pump_pending, init_waiting, init_except, now, budget>>
    /\ UNCHANGED process_vars

\* for session_id in expired_sessions: the locked block
ReaperRemove ==
    /\ reaper.pc = "remove"
    /\ \E s \in reaper.expired :
          /\ session_queue' = RemoveFirst(session_queue, s)
          /\ active_sessions' = active_sessions \ {s}
          /\ reaper' = [pc |-> "clear", expired |-> reaper.expired \ {s}, cur |-> s,
                        queue_updated |-> \/ reaper.queue_updated
                                          \/ s \in QueueIds(session_queue)
                                          \/ s \in active_sessions]
    /\ response' = NoResponse
    /\ UNCHANGED <<session_metadata, session_states, avg_processing_time, queue_file,
                   inference_lock, start_pending, close_pending, pump_pending,
                   init_waiting, init_except, now, budget>>
    /\ UNCHANGED process_vars

\* self.__clear_session_state(session_id, reason="timeout"): the pop
ReaperClear ==
    /\ reaper.pc = "clear"
    /\ IF reaper.cur \in DOMAIN session_states
       THEN /\ session_states' = Drop(session_states, reaper.cur)
            /\ reaper' = ReaperNext(reaper)
       ELSE /\ reaper' = [reaper EXCEPT !.pc = "mark"]
            /\ UNCHANGED session_states
    /\ response' = NoResponse
    /\ UNCHANGED <<session_queue, active_sessions, session_metadata, avg_processing_time,
                   queue_file, inference_lock, start_pending, close_pending, pump_pending,
                   init_waiting, init_except, now, budget>>
    /\ UNCHANGED process_vars

\* __clear_session_state, session is None: the locked block that marks the row
ReaperMark ==
    /\ reaper.pc = "mark"
    /\ session_metadata' = SetStatus(session_metadata, reaper.cur, "completed")
    /\ reaper' = ReaperNext(reaper)
    /\ response' = NoResponse
    /\ UNCHANGED <<session_queue, active_sessions, session_states, avg_processing_time,
                   queue_file, inference_lock, start_pending, close_pending, pump_pending,
                   init_waiting, init_except, now, budget>>
    /\ UNCHANGED process_vars

\* if queue_updated: persist under queue_lock, then self._process_queue()
ReaperPersist ==
    /\ reaper.pc = "persist"
    /\ IF reaper.queue_updated
       THEN /\ queue_file' = _persist_queue_state(session_queue)
            /\ pump_pending' = pump_pending + 1
       ELSE UNCHANGED <<queue_file, pump_pending>>
    /\ reaper' = ReaperIdle
    /\ response' = NoResponse
    /\ UNCHANGED <<session_queue, active_sessions, session_metadata, session_states,
                   avg_processing_time, inference_lock, start_pending, close_pending,
                   init_waiting, init_except, now, budget>>
    /\ UNCHANGED process_vars

(***************************************************************************)
(* The clock.                                                              *)
(***************************************************************************)
Tick ==
    /\ now < MaxTime
    /\ now' = now + 1
    /\ response' = NoResponse
    /\ UNCHANGED <<session_queue, active_sessions, session_metadata, session_states,
                   avg_processing_time, queue_file, inference_lock, start_pending,
                   close_pending, pump_pending, init_waiting, init_except, reaper, budget>>
    /\ UNCHANGED process_vars

(***************************************************************************)
(* The specification: every interleaving of clients, pump, initialisation  *)
(* threads and the reaper.                                                 *)
(***************************************************************************)
Next ==
    \/ \E s \in SessionIds : StartCheck(s)
    \/ \E s \in SessionIds : StartEnqueue(s)
    \/ \E s \in SessionIds : StartActivate(s)
    \/ ProcessQueue
    \/ \E s \in SessionIds : InitAcquire(s)
    \/ \E s \in SessionIds : InitStore(s)
    \/ \E s \in SessionIds : InitRaise(s)
    \/ \E s \in SessionIds : InitExcept(s)
    \/ \E s \in SessionIds : CloseSession(s)
    \/ \E s \in SessionIds : CloseClear(s)
    \/ \E s \in SessionIds : CloseMark(s)
    \/ ReaperCollect
    \/ ReaperRemove
    \/ ReaperClear
    \/ ReaperMark
    \/ ReaperPersist
    \/ Tick

Spec == Init /\ [][Next]_vars

(***************************************************************************)
(* Sequential submission: one client submits ids 1, 2, ... one call after  *)
(* the other on the empty system; no close, no reaper tick, no init        *)
(* failure.  The background threads still interleave with the client.      *)
(***************************************************************************)
SeqStartCheck(s) ==
    /\ start_pending = <<>>
    /\ s = Cardinality(DOMAIN session_metadata) + 1
    /\ StartCheck(s)

NextSeq ==
    \/ \E s \in SessionIds : SeqStartCheck(s)
    \/ \E s \in SessionIds : StartEnqueue(s)
    \/ \E s \in SessionIds : StartActivate(s)
    \/ ProcessQueue
    \/ \E s \in SessionIds : InitAcquire(s)
    \/ \E s \in SessionIds : InitStore(s)
    \/ Tick

InitSeq == Constructed(<<>>, NumSessions)

SpecSeq == InitSeq /\ [][NextSeq]_vars

(***************************************************************************)
(* get_queue_status: the response computed from the snapshot taken under   *)
(* queue_lock.                                                             *)
(***************************************************************************)
QueueStatusResponse(s, st, pos, wait) ==
    [op |-> "get_queue_status", session_id |-> s, status |-> st,
     position |-> pos, estimated_wait_time |-> wait]

get_queue_status(s, meta, q, avg) ==
    IF s \notin DOMAIN meta
    THEN QueueStatusResponse(s, "not_found", -1, -1)
    ELSE IF meta[s].status \in {"processing", "completed", "error"}
         THEN QueueStatusResponse(s, meta[s].status, 0, 0)
         ELSE LET position == FirstIndex(q, s)
              IN  QueueStatusResponse(s, "queued", position,
                                      EstimatedWaitTime(position, avg))

\* a get_queue_status call for s: it takes its snapshot under queue_lock and
\* returns
GetQueueStatus(s) ==
    /\ response' = get_queue_status(s, session_metadata, session_queue,
                                    avg_processing_time)
    /\ UNCHANGED <<session_queue, active_sessions, session_metadata, session_states,
                   avg_processing_time, queue_file, inference_lock, start_pending,
                   close_pending, pump_pending, init_waiting, init_except, reaper,
                   now, budget, server, saving, propagation>>
    /\ UNCHANGED lock_vars

\* every interleaving of Spec, with status polls at any point
NextStatus ==
    \/ Next
    \/ \E s \in SessionIds : GetQueueStatus(s)

SpecStatus == Init /\ [][NextStatus]_vars

(***************************************************************************)
(* The queue store across saves that fail, crashes and restarts.           *)
(* save_queue is run in its steps: open(queue_file, 'w') empties the file, *)
(* json.dump writes the records, the close completes the array.  The       *)
(* caller holds queue_lock during the save.  A crash stops the process at  *)
(* any point and keeps the file as it is; the restart constructs a new     *)
(* InferenceAPI over it.                                                   *)
(***************************************************************************)
\* save_queue(q) has opened the file; before is the image the open replaced
Saving(q, before, caller, s, r) ==
    [pc |-> "dump", image |-> save_queue(q), written |-> 0, before |-> before,
     caller |-> caller, session |-> s, response |-> r]

\* start_session, first locked block, in a running server
StoreStartCheck(s) ==
    /\ server = "running"
    /\ saving = SaveIdle
    /\ StartCheck(s)

\* start_session, the activation block, in a running server
StoreStartActivate(s) ==
    /\ server = "running"
    /\ saving = SaveIdle
    /\ StartActivate(s)

\* start_session, the enqueue block up to the open() of save_queue
EnqueueOpen(s, request) ==
    /\ server = "running"
    /\ saving = SaveIdle
    /\ s \in DOMAIN start_pending
    /\ start_pending[s].need_queue
    /\ LET t == start_pending[s].enqueue_time
           q == Append(session_queue,
                       [session_id |-> s, request |-> request, enqueue_time |-> t])
           position == QueuePosition(q)
       IN  /\ session_metadata' = Put(session_metadata, s, QueuedRow(t))
           /\ session_queue' = q
           /\ queue_file' = <<Truncated>>
           /\ saving' = Saving(q, queue_file, "start_session", s,
                               StartSessionResponse(s, TRUE, position,
                                   EstimatedWaitTime(position, avg_processing_time)))
    /\ response' = NoResponse
    /\ UNCHANGED <<active_sessions, session_states, avg_processing_time, inference_lock,
                   start_pending, close_pending, pump_pending, init_waiting, init_except,
                   reaper, now, budget, server, propagation>>
    /\ UNCHANGED lock_vars

\* start_session, the enqueue block when save_queue raises before the file is
\* emptied (to_dict or open fails): save_queue returns False, the call goes on
EnqueueOpenFails(s, request) ==
    /\ server = "running"
    /\ saving = SaveIdle
    /\ s \in DOMAIN start_pending
    /\ start_pending[s].need_queue
    /\ LET t == start_pending[s].enqueue_time
           q == Append(session_queue,
                       [session_id |-> s, request |-> request, enqueue_time |-> t])
           position == QueuePosition(q)
       IN  /\ session_metadata' = Put(session_metadata, s, QueuedRow(t))
           /\ session_queue' = q
           /\ response' = StartSessionResponse(s, TRUE, position,
                              EstimatedWaitTime(position, avg_processing_time))
    /\ start_pending' = Drop(start_pending, s)
    /\ UNCHANGED <<active_sessions, session_states, avg_processing_time, queue_file,
                   inference_lock, close_pending, pump_pending, init_waiting,
                   init_except, reaper, now, budget, server, saving, propagation>>
    /\ UNCHANGED lock_vars

\* json.dump has written one more record
SaveWrite ==
    /\ saving.pc = "dump"
    /\ saving.written < Len(saving.image)
    /\ queue_file' = SubSeq(saving.image, 1, saving.written + 1) \o <<Truncated>>
    /\ saving' = [saving EXCEPT !.written = @ + 1]
    /\ response' = NoResponse
    /\ UNCHANGED <<session_queue, active_sessions, session_metadata, session_states,
                   avg_processing_time, inference_lock, start_pending, close_pending,
                   pump_pending, init_waiting, init_except, reaper, now, budget,
                   server, propagation>>
    /\ UNCHANGED lock_vars

\* the caller of save_queue goes on after the save: start_session returns its
\* response, the constructor's _process_queue starts the thread and returns
AfterSave ==
    /\ saving' = SaveIdle
    /\ IF saving.caller = "start_session"
       THEN /\ response' = saving.response
            /\ start_pending' = Drop(start_pending, saving.session)
            /\ UNCHANGED <<init_waiting, server>>
       ELSE /\ response' = NoResponse
            /\ init_waiting' = Started(init_waiting, saving.session)
            /\ server' = "running"
            /\ UNCHANGED start_pending
    /\ UNCHANGED <<session_queue, active_sessions, session_metadata, session_states,
                   avg_processing_time, inference_lock, close_pending, pump_pending,
                   init_except, reaper, now, budget, propagation>>
    /\ UNCHANGED lock_vars

\* json.dump has written everything and the file is closed: save_queue returns True
SaveReturn ==
    /\ saving.pc = "dump"
    /\ saving.written = Len(saving.image)
    /\ queue_file' = saving.image
    /\ AfterSave

\* json.dump raises: the file stays as written so far, save_queue returns False
SaveRaise ==
    /\ saving.pc = "dump"
    /\ UNCHANGED queue_file
    /\ AfterSave

\* the process is killed: the memory is lost, the file stays
Crash ==
    /\ server # "stopped"
    /\ server' = "stopped"
    /\ session_queue' = <<>>
    /\ active_sessions' = {}
    /\ session_metadata' = <<>>
    /\ session_states' = <<>>
    /\ avg_processing_time' = <<InitialAvgProcessingTime, 0>>
    /\ inference_lock' = [holder |-> "none"]
    /\ start_pending' = <<>>
    /\ close_pending' = <<>>
    /\ pump_pending' = 0
    /\ init_waiting' = [s \in SessionIds |-> 0]
    /\ init_except' = [s \in SessionIds |-> 0]
    /\ reaper' = ReaperIdle
    /\ saving' = SaveIdle
    /\ propagation' = NoPropagation
    /\ response' = NoResponse
    /\ UNCHANGED <<queue_file, now, budget>>
    /\ UNCHANGED lock_vars

\* __init__ up to self._restore_queue_state()
Restore ==
    /\ server = "stopped"
    /\ server' = "constructing"
    /\ LET loaded == load_queue(queue_file)
       IN  /\ session_queue' = RestoredQueue(loaded)
           /\ session_metadata' = RestoredMetadata(loaded)
    /\ response' = NoResponse
    /\ UNCHANGED <<active_sessions, session_states, avg_processing_time, queue_file,
                   inference_lock, start_pending, close_pending, pump_pending,
                   init_waiting, init_except, reaper, now, budget, saving, propagation>>
    /\ UNCHANGED lock_vars

\* __init__, its last statement: self._process_queue(), up to the open() of the
\* save when a session is promoted
ConstructPump ==
    /\ server = "constructing"
    /\ saving = SaveIdle
    /\ LET r == _process_queue(session_queue, active_sessions, session_metadata, now)
       IN  /\ session_queue' = r.queue
           /\ active_sessions' = r.active
           /\ session_metadata' = r.metadata
           /\ pump_pending' = IF r.again THEN pump_pending + 1 ELSE pump_pending
           /\ IF r.persisted
              THEN /\ queue_file' = <<Truncated>>
                   /\ saving' = Saving(r.queue, queue_file, "_process_queue",
                                       r.session, NoResponse)
                   /\ UNCHANGED server
              ELSE /\ server' = "running"
                   /\ UNCHANGED <<queue_file, saving>>
    /\ response' = NoResponse
    /\ UNCHANGED <<session_states, avg_processing_time, inference_lock, start_pending,
                   close_pending, init_waiting, init_except, reaper, now, budget,
                   propagation>>
    /\ UNCHANGED lock_vars

NextStore ==
    \/ \E s \in SessionIds : StoreStartCheck(s)
    \/ \E s \in SessionIds : StoreStartActivate(s)
    \/ \E s \in SessionIds : \E request \in StartRequests(s) : EnqueueOpen(s, request)
    \/ \E s \in SessionIds : \E request \in StartRequests(s) : EnqueueOpenFails(s, request)
    \/ SaveWrite
    \/ SaveReturn
    \/ SaveRaise
    \/ Crash
    \/ Restore
    \/ ConstructPump

\* a server constructed where no queue file exists, and NumSessions requests
InitFresh == Constructed(<<>>, NumSessions)

SpecStore == InitFresh /\ [][NextStore]_vars

(***************************************************************************)
(* The operations on a session: the edits and the propagation stream.      *)
(* Every edit runs under inference_lock from its first to its last         *)
(* statement and is one step.  A propagate_in_video generator holds        *)
(* inference_lock from its first next() to its end, across its yields;     *)
(* propagation holds the generators waiting for the lock and the position  *)
(* of the one that has it: "step" (about to ask the backend iterator for   *)
(* the next frame), "check" (about to read session["canceled"]), "yield"   *)
(* (about to heartbeat and yield the element).  The generator keeps the    *)
(* session dict it looked up in its local variable session: that dict is   *)
(* the entry of session_states while the entry exists (no other dict can   *)
(* be stored under the id while the generator holds inference_lock), and   *)
(* propagation.session follows every write to it, so that it is the dict   *)
(* the generator still holds once the entry has been popped.               *)
(***************************************************************************)
\* self.device: the specification runs the server on the accelerator
device == [type |-> "cuda"]

\* _process_session: offload_video_to_cpu = True; if the request declares
\* keep_frames_on_gpu: offload_video_to_cpu = self.device.type != "cuda"
offload_video_to_cpu(request_data) ==
    IF "keep_frames_on_gpu" \in DOMAIN request_data /\ request_data.keep_frames_on_gpu
    THEN device.type # "cuda"
    ELSE TRUE

\* if self.device.type == "cuda": torch.cuda.empty_cache() -- n calls so far
EmptyCacheSkipped(n) == n
EmptyCache(n) == IF device.type = "cuda" THEN n + 1 ELSE n

\* if processed_frames % 10 == 0
FlushPeriod == 10
FlushDue(processed_frames) == processed_frames % FlushPeriod = 0

\* the outcome of an operation on a session: exception is the exception that
\* reaches the caller, "none" when the call returns
EditResponse(op, s, exception) ==
    [op |-> op, session_id |-> s, error |-> exception # "none",
     exception |-> exception]

StreamResponse(s, kind, exception) ==
    [op |-> "propagate_in_video", session_id |-> s, kind |-> kind,
     error |-> exception # "none", exception |-> exception]

\* a ModelBackend call returns or raises
BackendOutcomes == {"none", "BackendFailure"}

\* session["last_active_time"] = time.time()
Heartbeat(states, s, t) == [states EXCEPT ![s].last_active_time = t]

\* the edits that do not write last_active_time: session = self.__get_session(id),
\* (RuntimeError when there is none), then the rest of the call, which returns
\* (raised = "none") or raises
Edit(op, s, raised) ==
    /\ budget > 0
    /\ budget' = budget - 1
    /\ inference_lock.holder = "none"
    /\ response' = EditResponse(op, s, IF s \notin DOMAIN session_states
                                            THEN "RuntimeError" ELSE raised)
    /\ UNCHANGED <<session_queue, active_sessions, session_metadata, session_states,
                   avg_processing_time, queue_file, inference_lock, start_pending,
                   close_pending, pump_pending, init_waiting, init_except, reaper,
                   now, server, saving, propagation>>
    /\ UNCHANGED lock_vars

\* add_points: the heartbeat precedes the backend call
AddPoints(s) ==
    /\ server = "running"
    /\ budget > 0
    /\ budget' = budget - 1
    /\ inference_lock.holder = "none"
    /\ \E raised \in BackendOutcomes :
          IF s \notin DOMAIN session_states
          THEN /\ response' = EditResponse("add_points", s, "RuntimeError")
               /\ UNCHANGED session_states
          ELSE /\ session_states' = Heartbeat(session_states, s, now)
               /\ response' = EditResponse("add_points", s, raised)
    /\ UNCHANGED <<session_queue, active_sessions, session_metadata,
                   avg_processing_time, queue_file, inference_lock, start_pending,
                   close_pending, pump_pending, init_waiting, init_except, reaper,
                   now, server, saving, propagation>>
    /\ UNCHANGED lock_vars

\* add_mask: self.model does not exist, the call raises AttributeError
AddMask(s) ==
    /\ server = "running"
    /\ Edit("add_mask", s, "AttributeError")

ClearPointsInFrame(s) ==
    /\ server = "running"
    /\ \E raised \in BackendOutcomes : Edit("clear_points_in_frame", s, raised)

ClearPointsInVideo(s) ==
    /\ server = "running"
    /\ \E raised \in BackendOutcomes : Edit("clear_points_in_video", s, raised)

RemoveObject(s) ==
    /\ server = "running"
    /\ \E raised \in BackendOutcomes : Edit("remove_object", s, raised)

\* cancel_propagate_in_video: no lock is taken
CancelPropagate(s) ==
    /\ server = "running"
    /\ budget > 0
    /\ budget' = budget - 1
    /\ IF s \notin DOMAIN session_states
       THEN /\ response' = EditResponse("cancel_propagate_in_video", s, "RuntimeError")
            /\ UNCHANGED session_states
       ELSE /\ session_states' = [session_states EXCEPT ![s].canceled = TRUE]
            /\ response' = EditResponse("cancel_propagate_in_video", s, "none")
    /\ propagation' = IF /\ s \in DOMAIN session_states
                         /\ propagation.pc # "none"
                         /\ propagation.session_id = s
                      THEN [propagation EXCEPT !.session.canceled = TRUE]
                      ELSE propagation
    /\ UNCHANGED <<session_queue, active_sessions, session_metadata,
                   avg_processing_time, queue_file, inference_lock, start_pending,
                   close_pending, pump_pending, init_waiting, init_except, reaper,
                   now, server, saving>>
    /\ UNCHANGED lock_vars

\* propagate_in_video is called and its generator is iterated: it waits for
\* inference_lock
PropagateCall(s) ==
    /\ server = "running"
    /\ budget > 0
    /\ budget' = budget - 1
    /\ propagation' = [propagation EXCEPT !.waiting[s] = @ + 1]
    /\ response' = NoResponse
    /\ UNCHANGED <<session_queue, active_sessions, session_metadata, session_states,
                   avg_processing_time, queue_file, inference_lock, start_pending,
                   close_pending, pump_pending, init_waiting, init_except, reaper,
                   now, server, saving>>
    /\ UNCHANGED lock_vars

\* with self.inference_lock: entered; __get_session, the heartbeat and the reset
\* of the flag; the forward iterator of the backend will produce frames frames.
\* When __get_session raises, the finally block formats processed_frames and
\* pre_mem_stats, which are not assigned yet: the UnboundLocalError it raises
\* replaces the RuntimeError and the with statement releases the lock
PropagateEnter(s, frames) ==
    /\ propagation.waiting[s] > 0
    /\ inference_lock.holder = "none"
    /\ IF s \notin DOMAIN session_states
       THEN /\ propagation' = [propagation EXCEPT !.waiting[s] = @ - 1,
                                                  !.empty_cache = EmptyCache(0)]
            /\ response' = StreamResponse(s, "end", "UnboundLocalError")
            /\ UNCHANGED <<session_states, inference_lock>>
       ELSE /\ inference_lock' = [holder |-> "propagate", session_id |-> s]
            /\ session_states' =
                   [session_states EXCEPT ![s] = [canceled |-> FALSE,
                                                  last_active_time |-> now]]
            /\ propagation' = [pc |-> "step", session_id |-> s,
                               session |-> [canceled |-> FALSE,
                                            last_active_time |-> now],
                               reverse |-> FALSE, suspended |-> FALSE,
                               left |-> frames, processed_frames |-> 0,
                               empty_cache |-> 0,
                               waiting |-> [propagation.waiting EXCEPT ![s] = @ - 1]]
            /\ response' = NoResponse
    /\ UNCHANGED <<session_queue, active_sessions, session_metadata,
                   avg_processing_time, queue_file, start_pending, close_pending,
                   pump_pending, init_waiting, init_except, reaper, now, budget,
                   server, saving>>
    /\ UNCHANGED lock_vars

\* the generator ends, at the return in the loop (kind "canceled"), after the
\* loops (kind "end"), by an exception of the backend (kind "error") or by the
\* GeneratorExit its consumer's close() raises at the yield (kind "closed"): the
\* finally block runs, it empties the cache, and inference_lock is released.
\* flushes is the number of torch.cuda.empty_cache() calls of the stream up to
\* the finally block
PropagateEnds(kind, exception, flushes) ==
    /\ propagation' = [pc |-> "none", waiting |-> propagation.waiting,
                       empty_cache |-> EmptyCache(flushes)]
    /\ inference_lock' = [holder |-> "none"]
    /\ response' = StreamResponse(propagation.session_id, kind, exception)

\* session["canceled"] as the loop reads it: the flag of the live session dict
CanceledAsReset(states, s) == FALSE
Canceled(states, s) == states[s].canceled

\* session_states as the generator sees it through its local variable session
GeneratorView(states, p) ==
    IF p.session_id \in DOMAIN states THEN states ELSE Put(states, p.session_id, p.session)

\* for outputs in self.predictor.propagate_in_video(...): the backend produces the
\* next frame, or the forward loop ends and the backward one starts with frames
\* frames, or the backward loop ends
PropagateStep(frames) ==
    /\ propagation.pc = "step"
    /\ IF propagation.left > 0
       THEN /\ propagation' = [propagation EXCEPT !.pc = "check", !.left = @ - 1,
                                                  !.suspended = FALSE]
            /\ response' = NoResponse
            /\ UNCHANGED inference_lock
       ELSE IF ~propagation.reverse
            THEN /\ propagation' = [propagation EXCEPT !.reverse = TRUE,
                                                       !.left = frames,
                                                       !.suspended = FALSE]
                 /\ response' = NoResponse
                 /\ UNCHANGED inference_lock
            ELSE PropagateEnds("end", "none", propagation.empty_cache)
    /\ UNCHANGED <<session_queue, active_sessions, session_metadata, session_states,
                   avg_processing_time, queue_file, start_pending, close_pending,
                   pump_pending, init_waiting, init_except, reaper, now, budget,
                   server, saving>>
    /\ UNCHANGED lock_vars

\* if session["canceled"]: torch.cuda.empty_cache(); return None -- otherwise
\* processed_frames += 1 and the cache is emptied at every FlushPeriod-th frame
PropagateCheck ==
    /\ propagation.pc = "check"
    /\ IF Canceled(GeneratorView(session_states, propagation),
                   propagation.session_id)
       THEN PropagateEnds("canceled", "none", EmptyCache(propagation.empty_cache))
       ELSE /\ propagation' =
                   [propagation EXCEPT
                       !.pc = "yield",
                       !.processed_frames = @ + 1,
                       !.empty_cache =
                           IF FlushDue(propagation.processed_frames + 1)
                           THEN EmptyCache(@) ELSE @]
            /\ response' = NoResponse
            /\ UNCHANGED inference_lock
    /\ UNCHANGED <<session_queue, active_sessions, session_metadata, session_states,
                   avg_processing_time, queue_file, start_pending, close_pending,
                   pump_pending, init_waiting, init_except, reaper, now, budget,
                   server, saving>>
    /\ UNCHANGED lock_vars

\* session["last_active_time"] = time.time(); yield PropagateDataResponse(...)
PropagateYield ==
    /\ propagation.pc = "yield"
    /\ session_states' =
           IF propagation.session_id \in DOMAIN session_states
           THEN Heartbeat(session_states, propagation.session_id, now)
           ELSE session_states
    /\ propagation' = [propagation EXCEPT !.pc = "step", !.suspended = TRUE,
                                          !.session.last_active_time = now]
    /\ response' = StreamResponse(propagation.session_id, "element", "none")
    /\ UNCHANGED <<session_queue, active_sessions, session_metadata,
                   avg_processing_time, queue_file, inference_lock, start_pending,
                   close_pending, pump_pending, init_waiting, init_except, reaper,
                   now, budget, server, saving>>
    /\ UNCHANGED lock_vars

\* the backend iterator raises when it is asked for the next frame: the
\* exception leaves the generator through the finally block
PropagateRaise ==
    /\ propagation.pc = "step"
    /\ PropagateEnds("error", "BackendFailure", propagation.empty_cache)
    /\ UNCHANGED <<session_queue, active_sessions, session_metadata, session_states,
                   avg_processing_time, queue_file, start_pending, close_pending,
                   pump_pending, init_waiting, init_except, reaper, now, budget,
                   server, saving>>
    /\ UNCHANGED lock_vars

\* the consumer abandons the stream: close() raises GeneratorExit at the yield
\* the generator is suspended at
PropagateClose ==
    /\ propagation.pc = "step"
    /\ propagation.suspended
    /\ PropagateEnds("closed", "none", propagation.empty_cache)
    /\ UNCHANGED <<session_queue, active_sessions, session_metadata, session_states,
                   avg_processing_time, queue_file, start_pending, close_pending,
                   pump_pending, init_waiting, init_except, reaper, now, budget,
                   server, saving>>
    /\ UNCHANGED lock_vars

\* one client that starts sessions one call after the other and operates on
\* them, the initialisation threads, the pump and the clock
NextOps ==
    \/ \E s \in SessionIds : SeqStartCheck(s)
    \/ \E s \in SessionIds : StartEnqueue(s)
    \/ \E s \in SessionIds : StartActivate(s)
    \/ ProcessQueue
    \/ \E s \in SessionIds : InitAcquire(s)
    \/ \E s \in SessionIds : InitStore(s)
    \/ \E s \in SessionIds : AddPoints(s)
    \/ \E s \in SessionIds : AddMask(s)
    \/ \E s \in SessionIds : ClearPointsInFrame(s)
    \/ \E s \in SessionIds : ClearPointsInVideo(s)
    \/ \E s \in SessionIds : RemoveObject(s)
    \/ \E s \in SessionIds : CancelPropagate(s)
    \/ \E s \in SessionIds : PropagateCall(s)
    \/ \E s \in SessionIds : \E frames \in 0..MaxFrames : PropagateEnter(s, frames)
    \/ \E frames \in 0..MaxFrames : PropagateStep(frames)
    \/ PropagateCheck
    \/ PropagateYield
    \/ Tick

InitOps == Constructed(<<>>, MaxOps)

SpecOps == InitOps /\ [][NextOps]_vars

(***************************************************************************)
(* The propagation stream with every way it ends and with loops of up to   *)
(* StreamFrames frames: the backend can raise at any step and the consumer *)
(* can close the generator at any yield.                                   *)
(***************************************************************************)
StreamFrames == 10

LongPropagateEnter(s, frames) ==
    /\ frames > MaxFrames
    /\ PropagateEnter(s, frames)

LongPropagateStep(frames) ==
    /\ frames > MaxFrames
    /\ PropagateStep(frames)

NextStream ==
    \/ NextOps
    \/ \E s \in SessionIds : \E frames \in 0..StreamFrames : LongPropagateEnter(s, frames)
    \/ \E frames \in 0..StreamFrames : LongPropagateStep(frames)
    \/ PropagateRaise
    \/ PropagateClose

SpecStream == InitOps /\ [][NextStream]_vars

(***************************************************************************)
(* The operations on sessions with the reaper running: a tick can select   *)
(* and remove a session between any two steps of the client, of the        *)
(* initialisation threads and of a propagation stream.  No session is      *)
(* closed here, so the reaper is the only thread that pops a session and   *)
(* __clear_session_state always finds the state it is to pop (ReaperMark   *)
(* is never enabled).                                                      *)
(***************************************************************************)
NextReap ==
    \/ NextOps
    \/ ReaperCollect
    \/ ReaperRemove
    \/ ReaperClear
    \/ ReaperPersist

SpecReap == InitOps /\ [][NextReap]_vars

(***************************************************************************)
(* The pump on a server whose max_concurrent_sessions is PumpCap.  The     *)
(* server is constructed over the queue file a previous run left behind:   *)
(* the initial states are those after _restore_queue_state, with the call  *)
(* of _process_queue that ends __init__ still to run.  The further runs of *)
(* the pump are those in the finally block of the _process_session threads *)
(* and those started by close_session.  No start_session call, no reaper   *)
(* tick.                                                                   *)
(***************************************************************************)
InitPump ==
    \E q0 \in PriorQueues :
       LET file == save_queue(q0)
           loaded == load_queue(file)
       IN  /\ session_queue = RestoredQueue(loaded)
           /\ active_sessions = {}
           /\ session_metadata = RestoredMetadata(loaded)
           /\ session_states = <<>>
           /\ avg_processing_time = <<InitialAvgProcessingTime, 0>>
           /\ queue_file = file
           /\ inference_lock = [holder |-> "none"]
           /\ start_pending = <<>>
           /\ close_pending = <<>>
           /\ pump_pending = 1
           /\ init_waiting = [s \in SessionIds |-> 0]
           /\ init_except = [s \in SessionIds |-> 0]
           /\ reaper = ReaperIdle
           /\ now = 0
           /\ budget = MaxCalls
           /\ response = NoResponse
           /\ server = "constructing"
           /\ saving = SaveIdle
           /\ propagation = NoPropagation
           /\ queue_lock = Unlocked
           /\ cleanup_lock = Unlocked
           /\ threads = [h \in Handlers |-> Idle]

\* _process_queue: one run of the pump with PumpCap slots
Pump ==
    /\ pump_pending > 0
    /\ LET r == _process_queue_at(PumpCap, session_queue, active_sessions,
                                  session_metadata, now)
       IN  /\ session_queue' = r.queue
           /\ active_sessions' = r.active
           /\ session_metadata' = r.metadata
           /\ queue_file' = IF r.persisted THEN _persist_queue_state(r.queue)
                            ELSE queue_file
           /\ init_waiting' = Started(init_waiting, r.session)
           /\ pump_pending' = IF r.again THEN pump_pending ELSE pump_pending - 1
    /\ server' = "running"
    /\ response' = NoResponse
    /\ UNCHANGED <<session_states, avg_processing_time, inference_lock, start_pending,
                   close_pending, init_except, reaper, now, budget, saving,
                   propagation>>
    /\ UNCHANGED lock_vars

\* a close_session call on the constructed server
CloseSessionRunning(s) ==
    /\ server = "running"
    /\ CloseSession(s)

NextPump ==
    \/ Pump
    \/ \E s \in SessionIds : InitAcquire(s)
    \/ \E s \in SessionIds : InitStore(s)
    \/ \E s \in SessionIds : CloseSessionRunning(s)
    \/ \E s \in SessionIds : CloseClear(s)
    \/ \E s \in SessionIds : CloseMark(s)
    \/ Tick

SpecPump == InitPump /\ [][NextPump]_vars

(***************************************************************************)
(* The handlers at the level of their locks.  Every handler runs in its    *)
(* own thread along one of its paths: the sequence of lock acquisitions    *)
(* and releases (with blocks), writes to the shared structures,            *)
(* ModelBackend calls, saves of the queue and yields that the source       *)
(* performs on one way through its branches.  A thread at a position is    *)
(* about to perform, or is performing, the instruction there.  The data    *)
(* is left out: which path a thread takes is a free choice.  At most       *)
(* MaxThreads handlers run at a time.                                      *)
(***************************************************************************)
Acquire(l) == [op |-> "acquire", on |-> l]
Release(l) == [op |-> "release", on |-> l]
Write(x) == [op |-> "write", on |-> x]
Call(f) == [op |-> "call", on |-> f]
\* self._persist_queue_state(already_has_lock=True): the save, no lock is taken
SaveQueueTakingLock == [op |-> "acquire", on |-> "queue_lock"]
SaveQueue == [op |-> "save", on |-> "queue_file"]
YieldElement == [op |-> "yield", on |-> "element"]

\* with self.queue_lock: body
WithQueueLock(body) == <<Acquire("queue_lock")>> \o body \o <<Release("queue_lock")>>

\* with self.cleanup_lock: body
WithCleanupLock(body) ==
    <<Acquire("cleanup_lock")>> \o body \o <<Release("cleanup_lock")>>

\* with self.autocast_context(), self.inference_lock: body
WithoutInferenceLock(body) == body
WithInferenceLock(body) ==
    <<Acquire("inference_lock")>> \o body \o <<Release("inference_lock")>>

\* try: with self.inference_lock: locked ... except Exception: handler -- the
\* exception leaves the with block, which releases the lock, before the handler
\* runs
ExceptInsideWith(locked, handler) == WithInferenceLock(locked \o handler)
ExceptAfterWith(locked, handler) == WithInferenceLock(locked) \o handler

\* _process_queue: it returns at once, or drops a stale head and starts another
\* run, or promotes the head
_process_queue_paths ==
    {WithQueueLock(<<>>),
     WithQueueLock(<<Write("session_queue")>>),
     WithQueueLock(<<Write("session_queue"), Write("active_sessions"),
                     Write("session_metadata"), SaveQueue>>)}

\* _process_session: init_state returns and the statistics are updated, or
\* init_state raises, or the statistics raise after the store; finally the pump
_process_session_paths ==
    {body \o pump :
        body \in {WithInferenceLock(<<Call("init_state"), Write("session_states"),
                                      Write("session_metadata"),
                                      Write("avg_processing_time")>>),
                  ExceptAfterWith(<<Call("init_state")>>,
                                  WithQueueLock(<<Write("active_sessions"),
                                                  Write("session_metadata")>>)),
                  ExceptAfterWith(<<Call("init_state"), Write("session_states")>>,
                                  WithQueueLock(<<Write("active_sessions"),
                                                  Write("session_metadata")>>))},
        pump \in _process_queue_paths}

\* start_session: the existing status is returned, or the session is enqueued,
\* or it is activated
start_session_paths ==
    {WithQueueLock(<<>>),
     WithQueueLock(<<>>) \o WithQueueLock(<<Write("session_metadata"),
                                            Write("session_queue"), SaveQueue>>),
     WithQueueLock(<<>>) \o WithQueueLock(<<Write("session_metadata"),
                                            Write("active_sessions")>>)}

\* __clear_session_state: the state is popped, or there is none and the row is
\* marked
__clear_session_state_paths ==
    {<<Write("session_states")>>,
     WithQueueLock(<<Write("session_metadata")>>)}

\* close_session on an unknown id, a queued one, an active one, one with a row only
close_session_paths ==
    {WithQueueLock(block) \o clear :
        block \in {<<>>,
                   <<Write("session_queue"), Write("session_metadata"), SaveQueue>>,
                   <<Write("active_sessions"), Write("session_metadata")>>,
                   <<Write("session_metadata")>>},
        clear \in __clear_session_state_paths}

get_queue_status_paths == {WithQueueLock(<<>>)}

\* _check_and_cleanup_sessions: nothing expired, or one expired session that is
\* active (the queue is persisted and pumped) or that is not
_check_and_cleanup_sessions_paths ==
    {WithCleanupLock(<<>>)}
    \cup {WithCleanupLock(<<>>) \o WithQueueLock(<<Write("active_sessions")>>)
              \o clear \o WithCleanupLock(<<>>) \o WithQueueLock(<<SaveQueue>>)
              \o pump :
             clear \in __clear_session_state_paths, pump \in _process_queue_paths}
    \cup {WithCleanupLock(<<>>) \o WithQueueLock(<<>>) \o clear
              \o WithCleanupLock(<<>>) :
             clear \in __clear_session_state_paths}

\* add_points, clear_points_in_frame, clear_points_in_video, remove_object, and
\* a call that raises before its backend call (no session; add_mask)
edit_paths ==
    {WithInferenceLock(<<Write("session_states"), Call("add_new_points_or_box")>>),
     WithInferenceLock(<<Call("clear_all_prompts_in_frame")>>),
     WithInferenceLock(<<Call("reset_state")>>),
     WithInferenceLock(<<Call("remove_object")>>),
     WithInferenceLock(<<>>)}

\* one frame of a stream: the backend step, the heartbeat, the yield
FrameReleasing ==
    <<Call("propagate_in_video"), Write("session_states"),
      Release("inference_lock"), YieldElement, Acquire("inference_lock")>>
Frame == <<Call("propagate_in_video"), Write("session_states"), YieldElement>>

\* propagate_in_video: no session; a stream of one forward and one backward
\* frame, each loop ended by the backend step that finds no frame; a stream
\* cancelled at its first check; a stream the consumer closes at its first yield
propagate_in_video_paths ==
    {WithInferenceLock(<<>>),
     WithInferenceLock(<<Write("session_states")>> \o Frame
                           \o <<Call("propagate_in_video")>> \o Frame
                           \o <<Call("propagate_in_video")>>),
     WithInferenceLock(<<Write("session_states"), Call("propagate_in_video")>>),
     WithInferenceLock(<<Write("session_states")>> \o Frame)}

\* cancel_propagate_in_video on a live session
cancel_propagate_in_video_paths == {<<Write("session_states")>>}

Paths(h) ==
    CASE h = "start_session" -> start_session_paths
      [] h = "close_session" -> close_session_paths
      [] h = "get_queue_status" -> get_queue_status_paths
      [] h = "_check_and_cleanup_sessions" -> _check_and_cleanup_sessions_paths
      [] h = "_process_queue" -> _process_queue_paths
      [] h = "_process_session" -> _process_session_paths
      [] h = "edit" -> edit_paths
      [] h = "propagate_in_video" -> propagate_in_video_paths
      [] h = "cancel_propagate_in_video" -> cancel_propagate_in_video_paths

Running == {h \in Handlers : threads[h].pc > 0}

\* the instruction thread h is at
Instr(h) == threads[h].path[threads[h].pc]

At(h, op) == threads[h].pc > 0 /\ Instr(h).op = op

Advance(h) ==
    [threads EXCEPT ![h] = IF @.pc = Len(@.path) THEN Idle
                           ELSE [@ EXCEPT !.pc = @ + 1]]

Holder(l) ==
    CASE l = "queue_lock" -> queue_lock.holder
      [] l = "cleanup_lock" -> cleanup_lock.holder
      [] l = "inference_lock" -> inference_lock.holder

\* lock l gets holder h
SetHolder(l, h) ==
    /\ queue_lock' = IF l = "queue_lock" THEN [holder |-> h] ELSE queue_lock
    /\ cleanup_lock' = IF l = "cleanup_lock" THEN [holder |-> h] ELSE cleanup_lock
    /\ inference_lock' = IF l = "inference_lock" THEN [holder |-> h]
                         ELSE inference_lock

data_vars ==
    <<session_queue, active_sessions, session_metadata, session_states,
      avg_processing_time, queue_file, start_pending, close_pending, pump_pending,
      init_waiting, init_except, reaper, now, budget, response, server, saving,
      propagation>>

\* a handler is called, or its thread is started, and takes one of its paths
Begin(h) ==
    /\ threads[h] = Idle
    /\ Cardinality(Running) < MaxThreads
    /\ \E p \in Paths(h) : threads' = [threads EXCEPT ![h] = [path |-> p, pc |-> 1]]
    /\ UNCHANGED <<queue_lock, cleanup_lock, inference_lock, data_vars>>

\* Lock.acquire(): blocks while the lock is held, by whichever thread
AcquireStep(h) ==
    /\ At(h, "acquire")
    /\ Holder(Instr(h).on) = "none"
    /\ SetHolder(Instr(h).on, h)
    /\ threads' = Advance(h)
    /\ UNCHANGED data_vars

\* the end of a with block
ReleaseStep(h) ==
    /\ At(h, "release")
    /\ SetHolder(Instr(h).on, "none")
    /\ threads' = Advance(h)
    /\ UNCHANGED data_vars

\* a write, a backend call, a save or a yield is performed
PerformStep(h) ==
    /\ threads[h].pc > 0
    /\ Instr(h).op \in {"write", "call", "save", "yield"}
    /\ threads' = Advance(h)
    /\ UNCHANGED <<queue_lock, cleanup_lock, inference_lock, data_vars>>

NextLocks ==
    \/ \E h \in Handlers : Begin(h)
    \/ \E h \in Handlers : AcquireStep(h)
    \/ \E h \in Handlers : ReleaseStep(h)
    \/ \E h \in Handlers : PerformStep(h)

InitLocks == Constructed(<<>>, 0)

SpecLocks == InitLocks /\ [][NextLocks]_vars

(***************************************************************************)
(* Claims.                                                                 *)
(***************************************************************************)
Min(a, b) == IF a < b THEN a ELSE b

StatusOf(s) == session_metadata[s].status

\* no handler is between two of its steps and no started thread is still to run
Quiescent ==
    /\ start_pending = <<>>
    /\ close_pending = <<>>
    /\ pump_pending = 0
    /\ \A s \in SessionIds : init_waiting[s] = 0 /\ init_except[s] = 0
    /\ inference_lock.holder = "none"
    /\ reaper.pc = "idle"

\* C1 (I1): the number of active sessions never exceeds max_concurrent_sessions.
C1_ConcurrencyCap == Cardinality(active_sessions) <= max_concurrent_sessions

\* C2 (I2): no session id is in session_queue and in active_sessions at once.
C2_QueueActiveDisjoint == QueueIds(session_queue) \cap active_sessions = {}

\* C3 (I3): every queued id has status queued, every active id has status
\* processing, completed or error.
C3_StatusConsistency ==
    /\ \A s \in QueueIds(session_queue) :
          s \in DOMAIN session_metadata /\ StatusOf(s) = "queued"
    /\ \A s \in active_sessions :
          s \in DOMAIN session_metadata
          /\ StatusOf(s) \in {"processing", "completed", "error"}

\* C4 (I6): if X is queued ahead of Y and neither is active, no step makes Y
\* active unless X is admitted or leaves the queue in that step.
C4_StrictFIFO ==
    [][\A i, j \in 1..Len(session_queue) :
          LET X == session_queue[i].session_id
              Y == session_queue[j].session_id
          IN  (/\ i < j
               /\ X # Y
               /\ X \notin active_sessions
               /\ Y \notin active_sessions
               /\ Y \in active_sessions')
              => (X \in active_sessions' \/ X \notin QueueIds(session_queue'))]_vars

\* C5: admission needs no further request: when nothing is left to run (no handler
\* in flight, no pump or init thread pending, reaper idle), the queue is empty or
\* the active set is full, so a waiting head is never left behind.
C5_HeadNotLeftWaiting ==
    Quiescent =>
        (session_queue = <<>> \/ Cardinality(active_sessions) >= max_concurrent_sessions)

\* C6: once the reaper has freed a slot, no start_session activates its own, newly
\* submitted id directly while other sessions are queued.
C6_NoQueueBypass ==
    [][\A s \in SessionIds :
          (/\ reaper.queue_updated
           /\ s \notin QueueIds(session_queue)
           /\ s \in DOMAIN start_pending
           /\ s \notin DOMAIN start_pending'
           /\ s \notin active_sessions
           /\ s \in active_sessions')
          => session_queue = <<>>]_vars

\* C7: after N sequential submits of distinct ids to the empty system, min(N, K)
\* sessions are active with status processing and the other N - min(N, K) are
\* queued, with status queued, in submission order.
C7_SequentialSubmits ==
    start_pending = <<>> =>
        LET N == Cardinality(DOMAIN session_metadata)
            K == Min(N, max_concurrent_sessions)
        IN  /\ DOMAIN session_metadata = 1..N
            /\ active_sessions = 1..K
            /\ \A s \in 1..K : StatusOf(s) = "processing"
            /\ Len(session_queue) = N - K
            /\ \A i \in 1..(N - K) :
                  /\ session_queue[i].session_id = K + i
                  /\ StatusOf(K + i) = "queued"

C7_Witness ==
    /\ start_pending = <<>>
    /\ Cardinality(DOMAIN session_metadata) = NumSessions
    /\ Len(session_queue) = NumSessions - max_concurrent_sessions
    /\ Len(session_queue) >= 2

\* the start_session call of s that decided to queue runs its enqueue block
EnqueueStep(s) ==
    /\ s \in DOMAIN start_pending
    /\ start_pending[s].need_queue
    /\ s \notin DOMAIN start_pending'

StartCallOn(s) ==
    /\ budget' = budget - 1
    /\ \/ s \notin DOMAIN start_pending /\ s \in DOMAIN start_pending'
       \/ response'.op = "start_session" /\ response'.session_id = s

\* C9: a start_session for an id whose status is processing or completed changes
\* neither the queue, the active set, the metadata, the session states nor the
\* queue file, starts no initialisation and returns queued = false, position 0.
C9_IdempotentResubmit ==
    [][\A s \in SessionIds :
          (/\ StartCallOn(s)
           /\ s \in DOMAIN session_metadata
           /\ StatusOf(s) \in {"processing", "completed"})
          => /\ UNCHANGED <<session_queue, active_sessions, session_metadata,
                            session_states, queue_file, init_waiting, init_except,
                            inference_lock, pump_pending, start_pending>>
             /\ response'.op = "start_session"
             /\ response'.session_id = s
             /\ response'.queued = FALSE
             /\ response'.queue_position = 0]_vars

\* the response to a re-submit of a session that was closed before
C9_Witness ==
    /\ response.op = "start_session"
    /\ response.queued = FALSE
    /\ response.queue_position = 0
    /\ response.session_id \in DOMAIN session_metadata
    /\ StatusOf(response.session_id) = "completed"
    /\ response.session_id \notin active_sessions

\* C10: the locked block of close_session(X) leaves X neither queued nor active,
\* and starts a pump when it removed X from the queue or from the active set.
C10_CloseRemoves ==
    [][\A s \in SessionIds :
          (s \notin DOMAIN close_pending /\ s \in DOMAIN close_pending')
          => /\ s \notin QueueIds(session_queue')
             /\ s \notin active_sessions'
             /\ (s \in QueueIds(session_queue) \/ s \in active_sessions
                    => pump_pending' = pump_pending + 1)]_vars

\* the file holds the records of queue q: the same ids, enqueue times and requests
\* in the same order
FileHolds(file, q) ==
    /\ Len(file) = Len(q)
    /\ \A i \in 1..Len(q) :
          /\ file[i].session_id = q[i].session_id
          /\ file[i].enqueue_time = q[i].enqueue_time
          /\ file[i].request_data.path = q[i].request.path

\* the locked block of a close_session call on s runs in this step
CloseCallOn(s) == s \notin DOMAIN close_pending /\ s \in DOMAIN close_pending'

\* C11: close_session(X) for a queued X removes exactly one entry, an entry of X,
\* from session_queue, keeps all other entries in their order, leaves
\* active_sessions unchanged and rewrites the queue file to the new queue.
C11_CloseQueuedFrame ==
    [][\A s \in SessionIds :
          (CloseCallOn(s) /\ s \in QueueIds(session_queue))
          => /\ \E i \in 1..Len(session_queue) :
                   /\ session_queue[i].session_id = s
                   /\ session_queue' = SubSeq(session_queue, 1, i - 1)
                                         \o SubSeq(session_queue, i + 1, Len(session_queue))
             /\ active_sessions' = active_sessions
             /\ FileHolds(queue_file', session_queue')]_vars

\* C12 (I4): every step that changes session_queue (a locked block of
\* start_session, close_session, the reaper or _process_queue) leaves the queue
\* file equal to the new session_queue.
C12_PersistenceConsistency ==
    [][session_queue' # session_queue => FileHolds(queue_file', session_queue')]_vars

C14_AtomicSave ==
    saving.pc = "dump" =>
        \/ load_queue(queue_file) = load_queue(saving.before)
        \/ load_queue(queue_file) = load_queue(saving.image)

\* the constructor runs _restore_queue_state in this step
RestoreStep == server = "stopped" /\ server' = "constructing"

\* C15: constructing over a complete queue file restores its sessions in file
\* order with their enqueue times, status queued and positions 1, 2, ...; every
\* other id (the sessions active before the restart) is reported not_found; and
\* the pump at the end of the construction activates the head and leaves the
\* next session at the head of the queue.
C15_RestartRecovery ==
    [][/\ (RestoreStep /\ ~Torn(queue_file))
          => /\ Len(session_queue') = Len(queue_file)
             /\ \A i \in 1..Len(queue_file) :
                   LET s == queue_file[i].session_id
                       r == get_queue_status(s, session_metadata', session_queue',
                                             avg_processing_time')
                   IN  /\ session_queue'[i].session_id = s
                       /\ session_queue'[i].enqueue_time = queue_file[i].enqueue_time
                       /\ r.status = "queued"
                       /\ r.position = i
             /\ \A s \in SessionIds \ {queue_file[i].session_id : i \in 1..Len(queue_file)} :
                   get_queue_status(s, session_metadata', session_queue',
                                    avg_processing_time').status = "not_found"
       /\ (server = "constructing" /\ server' # "stopped" /\ saving = SaveIdle
              /\ session_queue # <<>>)
          => /\ active_sessions' = {Head(session_queue).session_id}
             /\ session_queue' = Tail(session_queue)]_vars

\* C16: _restore_queue_state restores every record of the file that is a start
\* request, in file order, whatever the other records are, and leaves no
\* metadata row with status queued whose id is not in session_queue.
C16_RobustRecovery ==
    [][RestoreStep
          => LET kept == SelectSeq(load_queue(queue_file), Recognised)
             IN  /\ Len(session_queue') = Len(kept)
                 /\ \A i \in 1..Len(kept) : session_queue'[i].session_id = kept[i][1]
                 /\ \A s \in DOMAIN session_metadata' :
                       session_metadata'[s].status = "queued"
                          => s \in QueueIds(session_queue')]_vars

\* the enqueue block of start_session for s ends in this step with a failed save
EnqueueSaveFailed(s) ==
    /\ s \in DOMAIN start_pending
    /\ s \notin DOMAIN start_pending'
    /\ start_pending[s].need_queue
    /\ server' = "running"
    /\ \/ saving = SaveIdle /\ queue_file' = queue_file
       \/ saving.pc = "dump" /\ Torn(queue_file')

\* C17: when save_queue fails while start_session enqueues a session, the session
\* is at the tail of session_queue with status queued and the queued response is
\* returned; when load_queue fails at construction the server is constructed with
\* an empty queue.
C17_AvailabilityOverDurability ==
    [][/\ \A s \in SessionIds :
             EnqueueSaveFailed(s)
             => LET n == Len(session_queue')
                IN  /\ n >= 1
                    /\ session_queue'[n].session_id = s
                    /\ session_metadata'[s].status = "queued"
                    /\ response'.op = "start_session"
                    /\ response'.session_id = s
                    /\ response'.queued = TRUE
                    /\ response'.queue_position = n
       /\ (server = "stopped" /\ server' # "stopped" /\ Torn(queue_file))
          => /\ server' = "constructing"
             /\ session_queue' = <<>>
             /\ session_metadata' = <<>>]_vars

\* a queued response returned although the file was left torn by the failed save
C17_Witness ==
    /\ server = "running"
    /\ saving = SaveIdle
    /\ response.op = "start_session"
    /\ response.queued
    /\ Torn(queue_file)
    /\ session_queue # <<>>
    /\ session_queue[Len(session_queue)].session_id = response.session_id

\* a get_queue_status call returns in this step
StatusStep == response'.op = "get_queue_status"

\* C18 (amended): get_queue_status(X) modifies no state and returns not_found with
\* position -1 when X has no metadata row, X's status with position 0 when the
\* status is processing, completed or error, and otherwise status queued with
\* position = the 1-based index of X's first entry in session_queue (0 when X has
\* no entry) and estimated_wait_time = position * avg_processing_time truncated
\* to an integer.
C18_QueueStatus ==
    [][StatusStep =>
          LET r == response'
              s == r.session_id
              avg == avg_processing_time
          IN  /\ UNCHANGED <<session_queue, active_sessions, session_metadata,
                             session_states, avg_processing_time, queue_file,
                             inference_lock, start_pending, close_pending,
                             pump_pending, init_waiting, init_except, reaper>>
              /\ s \notin DOMAIN session_metadata
                    => r.status = "not_found" /\ r.position = -1
              /\ (s \in DOMAIN session_metadata
                    /\ StatusOf(s) \in {"processing", "completed", "error"})
                    => r.status = StatusOf(s) /\ r.position = 0
              /\ (s \in DOMAIN session_metadata /\ StatusOf(s) = "queued")
                    => /\ r.status = "queued"
                       /\ IF s \in QueueIds(session_queue)
                          THEN /\ r.position \in 1..Len(session_queue)
                               /\ session_queue[r.position].session_id = s
                               /\ \A j \in 1..(r.position - 1) :
                                     session_queue[j].session_id # s
                          ELSE r.position = 0
                       /\ r.estimated_wait_time * Pow10(avg[2]) <= r.position * avg[1]
                       /\ r.position * avg[1]
                             < (r.estimated_wait_time + 1) * Pow10(avg[2])]_vars

\* the status of a queued session computed from an average that is not a whole
\* number
C18_Witness ==
    /\ response.op = "get_queue_status"
    /\ response.status = "queued"
    /\ response.position >= 1
    /\ avg_processing_time[2] > 0

\* C18 (as claimed): for a queued X the position is the 1-based index of X in
\* session_queue and estimated_wait_time equals position * avg_processing_time.
C18_ExactQueueStatus ==
    [][StatusStep =>
          LET r == response'
              s == r.session_id
          IN  (s \in DOMAIN session_metadata /\ StatusOf(s) = "queued")
                 => /\ r.status = "queued"
                    /\ r.position \in 1..Len(session_queue)
                    /\ session_queue[r.position].session_id = s
                    /\ r.estimated_wait_time * Pow10(avg_processing_time[2])
                          = r.position * avg_processing_time[1]]_vars

\* a propagate_in_video stream is between its first and its last step
Streaming == propagation.pc \in {"step", "check", "yield"}

\* the stream yields an element in this step
YieldStep == response'.op = "propagate_in_video" /\ response'.kind = "element"

\* C19: once the canceled flag of X is set while a stream of X is in progress, the
\* stream yields no element but the one whose check it had already passed, and
\* at its next check it ends without an error (so at most one further element is
\* yielded); the flag stays set until then; the next propagate_in_video of X
\* resets the flag and starts a stream.
C19_CooperativeCancel ==
    [][/\ (Streaming /\ session_states[propagation.session_id].canceled)
          => /\ YieldStep => (propagation.pc = "yield" /\ propagation'.pc = "step")
             /\ (propagation.pc = "check" /\ propagation'.pc # "check")
                   => /\ propagation'.pc = "none"
                      /\ response' = StreamResponse(propagation.session_id,
                                                    "canceled", "none")
                      /\ inference_lock'.holder = "none"
             /\ propagation'.pc # "none"
                   => session_states'[propagation.session_id].canceled
       /\ (propagation.pc = "none" /\ propagation'.pc # "none")
          => /\ propagation'.pc = "step"
             /\ ~session_states'[propagation'.session_id].canceled]_vars

\* a stream that had yielded an element ended at its check of the flag
C19_Witness ==
    /\ response.op = "propagate_in_video"
    /\ response = StreamResponse(response.session_id, "canceled", "none")
    /\ propagation.pc = "none"
    /\ session_states[response.session_id].canceled
    /\ inference_lock.holder = "none"

\* C20: every successful add_points, add_mask, clear_points_in_frame,
\* clear_points_in_video and remove_object call, and every element yielded by
\* propagate_in_video, leaves the session's last_active_time at the current time.
C20_Heartbeat ==
    [][(\/ /\ response'.op \in {"add_points", "add_mask", "clear_points_in_frame",
                                "clear_points_in_video", "remove_object"}
           /\ ~response'.error
        \/ YieldStep)
       => session_states'[response'.session_id].last_active_time = now']_vars

\* a step of the reaper: its position or its bookkeeping changes
ReaperStep == reaper' # reaper

\* the ids the running tick has selected and not yet finished with
ReaperPending == reaper.expired \cup ({reaper.cur} \ {0})

\* C21: the scan of a reaper tick selects exactly the sessions that have been idle
\* for strictly more than session_timeout (a session idle for exactly
\* session_timeout is not selected); the tick then takes every selected id out of
\* active_sessions and out of session_states before it ends, and no step of the
\* tick changes active_sessions or session_states at any other id.
C21_ReaperSelection ==
    /\ [][(reaper.pc = "idle" /\ ReaperStep) =>
             /\ reaper'.pc = "remove"
             /\ reaper'.cur = 0
             /\ reaper'.expired =
                    {s \in DOMAIN session_states :
                        now - session_states[s].last_active_time > session_timeout}
             /\ \A s \in DOMAIN session_states :
                    now - session_states[s].last_active_time = session_timeout
                        => s \notin reaper'.expired]_vars
    /\ [][(reaper.pc # "idle" /\ ReaperStep) =>
             /\ ReaperPending' \subseteq ReaperPending
             /\ reaper'.pc \in {"persist", "idle"} => ReaperPending' = {}
             /\ (reaper.pc = "remove") =>
                    /\ reaper'.pc = "clear"
                    /\ reaper'.cur \in reaper.expired
                    /\ reaper'.cur \notin active_sessions'
             /\ (reaper.pc = "clear") => reaper.cur \notin DOMAIN session_states'
             /\ \A s \in SessionIds \ ReaperPending :
                    /\ (s \in active_sessions') = (s \in active_sessions)
                    /\ (s \in DOMAIN session_states') = (s \in DOMAIN session_states)
                    /\ s \in DOMAIN session_states
                           => session_states'[s] = session_states[s]]_vars

\* a tick has removed an expired session and is finishing while a session that was
\* idle for exactly session_timeout at the scan is still stored and active
C21_Witness ==
    /\ reaper.pc = "persist"
    /\ reaper.queue_updated
    /\ \E s \in DOMAIN session_states :
          /\ s \in active_sessions
          /\ now - session_states[s].last_active_time = session_timeout
    /\ \E s \in SessionIds :
          s \notin DOMAIN session_states /\ s \in DOMAIN session_metadata

\* C22: when the reaper has finished with session X (its state popped, or found
\* absent and the row marked), get_queue_status(X) does not report processing.
C22_ReapedNotProcessing ==
    [][(ReaperStep /\ reaper.pc \in {"clear", "mark"} /\ reaper'.pc # "mark") =>
          get_queue_status(reaper.cur, session_metadata', session_queue',
                           avg_processing_time').status # "processing"]_vars

\* the operations on a session that look it up with __get_session
SessionOps ==
    {"add_points", "add_mask", "clear_points_in_frame", "clear_points_in_video",
     "remove_object", "propagate_in_video", "cancel_propagate_in_video"}

\* C23: an operation on an id that has no entry in session_states fails with the
\* session-not-found RuntimeError, changes no session or queue state and leaves
\* inference_lock released (cancel_propagate_in_video never takes it and leaves
\* it as it is).
C23_SessionNotFound ==
    [][(/\ response'.op \in SessionOps
        /\ response'.session_id \notin DOMAIN session_states
        /\ response'.error) =>
          /\ response'.exception = "RuntimeError"
          /\ UNCHANGED <<session_queue, active_sessions, session_metadata,
                         session_states, avg_processing_time, queue_file,
                         inference_lock>>
          /\ response'.op # "cancel_propagate_in_video"
                 => inference_lock'.holder = "none"]_vars

\* the reaper has removed the session of the running stream from session_states
StreamOrphaned ==
    /\ propagation.pc # "none"
    /\ propagation.session_id \notin DOMAIN session_states

\* C24: once the reaper has removed the session of a running stream, the stream yields
\* no further element: at its next heartbeat it ends with the session-not-found
\* error.
C24_ReaperEndsStream ==
    [][StreamOrphaned =>
          /\ response' # StreamResponse(propagation.session_id, "element", "none")
          /\ (propagation.pc = "yield" /\ propagation'.pc # "yield") =>
                /\ propagation'.pc = "none"
                /\ response' = StreamResponse(propagation.session_id, "end",
                                              "RuntimeError")]_vars

\* C26: once no operation is in flight (no handler between two of its steps, no
\* started thread still to run, the reaper between two ticks), every session that
\* has left the active set has had its model state released: session_states
\* holds entries of active sessions only.
C26_GuaranteedCleanup ==
    (Quiescent /\ reaper.pc = "idle") => DOMAIN session_states \subseteq active_sessions

\* the step in which init_state raises in the _process_session thread of s: the
\* thread leaves its locked block with an exception, and the row of s has the
\* key the statistics read, so that no statement after init_state has raised
InitRaiseStep(s) ==
    /\ inference_lock = [holder |-> "init", session_id |-> s]
    /\ inference_lock' = [holder |-> "none"]
    /\ init_except'[s] = init_except[s] + 1
    /\ "processing_start_time" \in DOMAIN session_metadata[s]

\* the except block of the _process_session thread of s
InitExceptStep(s) == init_except'[s] < init_except[s]

\* C29: when init_state raises for session X, no session_states entry is created
\* and avg_processing_time is unchanged; the except block then takes X out of
\* active_sessions and sets X's status to error, neither stores a state nor
\* touches avg_processing_time, and is followed by a run of _process_queue.
C29_InitFailure ==
    [][\A s \in SessionIds :
          /\ InitRaiseStep(s) =>
                UNCHANGED <<session_states, avg_processing_time, active_sessions,
                            session_metadata, session_queue>>
          /\ InitExceptStep(s) =>
                /\ s \notin active_sessions'
                /\ session_metadata'[s].status = "error"
                /\ pump_pending' = pump_pending + 1
                /\ UNCHANGED <<session_states, avg_processing_time, session_queue>>]_vars

\* init_state raised for an active session while another one was queued: the
\* slot is free, the session is in error without a state, and the pump is to run
C29_Witness ==
    \E s \in SessionIds :
       /\ s \in DOMAIN session_metadata
       /\ session_metadata[s].status = "error"
       /\ s \notin active_sessions
       /\ s \notin DOMAIN session_states
       /\ avg_processing_time = <<InitialAvgProcessingTime, 0>>
       /\ active_sessions = {}
       /\ session_queue # <<>>
       /\ pump_pending > 0

\* a run of the pump returns: it ends, or it drops the head and starts another
PumpStep ==
    \/ pump_pending' < pump_pending
    \/ /\ pump_pending' = pump_pending
       /\ Len(session_queue') < Len(session_queue)
       /\ close_pending' = close_pending

\* the ids a step takes from the queue into the active set
Promoted == active_sessions' \ active_sessions

\* C27: when a run of the pump returns, session_queue is empty or the active set
\* is at the cap; the sessions it promoted are the heads of the queue, each with
\* status processing, a processing_start_time and an initialisation launched,
\* and the file holds the remaining queue.
C27_PumpFillsToCap ==
    [][PumpStep =>
          /\ session_queue' = <<>> \/ Cardinality(active_sessions') = PumpCap
          /\ \E k \in 0..Len(session_queue) :
                /\ session_queue' = SubSeq(session_queue, k + 1, Len(session_queue))
                /\ Promoted = {session_queue[i].session_id : i \in 1..k}
          /\ \A s \in Promoted :
                /\ session_metadata'[s].status = "processing"
                /\ session_metadata'[s].processing_start_time = now
                /\ init_waiting'[s] = init_waiting[s] + 1
          /\ Promoted # {} => FileHolds(queue_file', session_queue')]_vars

\* C28: in every state, of two runs of the pump made one after the other with
\* nothing in between, the second changes nothing (queue, active set, metadata
\* and file are as the first left them) and launches no initialisation.
C28_PumpIdempotent ==
    LET first == _process_queue_at(PumpCap, session_queue, active_sessions,
                                   session_metadata, now)
        second == _process_queue_at(PumpCap, first.queue, first.active,
                                    first.metadata, now)
    IN  /\ second.queue = first.queue
        /\ second.active = first.active
        /\ second.metadata = first.metadata
        /\ ~second.persisted
        /\ second.session = 0

\* thread h is in a ModelBackend call
InBackend(h) == At(h, "call")

\* C25: at most one thread is in a ModelBackend call, and a thread in a
\* ModelBackend call holds inference_lock.
C25_InferenceSerialisation ==
    /\ Cardinality({h \in Handlers : InBackend(h)}) <= 1
    /\ \A h \in Handlers : InBackend(h) => inference_lock.holder = h

\* a thread is in init_state while a stream and an edit wait for inference_lock
C25_Witness ==
    /\ InBackend("_process_session")
    /\ Instr("_process_session").on = "init_state"
    /\ At("propagate_in_video", "acquire")
    /\ At("edit", "acquire")

\* C30: no thread holds queue_lock and inference_lock at the same time.
C30_LockOrdering ==
    \A h \in Handlers : ~(queue_lock.holder = h /\ inference_lock.holder = h)

\* the thread of a failed initialisation is in its except block under queue_lock
\* while a stream holds inference_lock
C30_Witness ==
    /\ queue_lock.holder = "_process_session"
    /\ At("_process_session", "write")
    /\ Instr("_process_session").on = "active_sessions"
    /\ inference_lock.holder = "propagate_in_video"

\* the structures queue_lock protects
QueueLockProtected == {"session_queue", "active_sessions", "session_metadata"}

\* C31: every write to session_queue, to active_sessions and to a row of
\* session_metadata is performed by a thread that holds queue_lock, the update
\* of the row when a session's initialisation completes included.
C31_QueueLockCoverage ==
    \A h \in Handlers :
       (At(h, "write") /\ Instr(h).on \in QueueLockProtected) => queue_lock.holder = h

\* a propagate_in_video stream ends in this step: its generator is left, or the
\* call finds no session
StreamEndStep ==
    /\ response'.op = "propagate_in_video"
    /\ response'.kind # "element"
    /\ propagation'.pc = "none"

\* the empty_cache calls of the stream before this step
FlushesSoFar == IF propagation.pc = "none" THEN 0 ELSE propagation.empty_cache

C33_SnapshotCompleteness ==
    [][(RestoreStep /\ ~Torn(queue_file))
          => /\ Len(session_queue') = Len(queue_file)
             /\ \A i \in 1..Len(queue_file) :
                   LET saved == queue_file[i].request_data
                       restored == session_queue'[i].request
                   IN  /\ "keep_frames_on_gpu" \in DOMAIN saved
                             => /\ "keep_frames_on_gpu" \in DOMAIN restored
                                /\ restored.keep_frames_on_gpu = saved.keep_frames_on_gpu
                       /\ "video_metadata" \in DOMAIN saved
                             => /\ "video_metadata" \in DOMAIN restored
                                /\ restored.video_metadata = saved.video_metadata
                       /\ offload_video_to_cpu(restored) = offload_video_to_cpu(saved)]_vars

\* C34: in every reachable state at most max_concurrent_sessions sessions hold a
\* model state (an entry of session_states).
C34_BoundedModelStates ==
    Cardinality(DOMAIN session_states) <= max_concurrent_sessions

\* a close_session call on s has returned and s has not been touched since: the
\* row of s is marked completed, no close_session of s is in progress and no
\* start_session of s is between its two locked blocks
Closed(s) ==
    /\ s \in DOMAIN session_metadata
    /\ session_metadata[s].status = "completed"
    /\ s \notin DOMAIN close_pending
    /\ s \notin DOMAIN start_pending

\* C35: once close_session(X) has returned, no step (pump, reaper, repeated
\* start_session(X)) adds X to active_sessions, sets the status of X to
\* processing or starts a _process_session thread for X.
C35_NoResurrection ==
    [][\A s \in SessionIds :
          Closed(s)
          => /\ s \notin active_sessions => s \notin active_sessions'
             /\ session_metadata'[s].status # "processing"
             /\ init_waiting'[s] <= init_waiting[s]]_vars

\* C36: in every reachable state no session id appears more than once in
\* session_queue.
C36_NoDuplicateQueueEntries ==
    \A i, j \in 1..Len(session_queue) :
       session_queue[i].session_id = session_queue[j].session_id => i = j

\* thread h waits for a lock another thread, or itself, holds
Blocked(h) == At(h, "acquire") /\ Holder(Instr(h).on) # "none"

\* C37: no thread acquires a lock it already holds (queue_lock in particular),
\* every thread that waits for a lock waits for one whose holder is a running
\* thread that is not waiting itself, and so in every state with a running
\* handler some handler can take its next step.
C37_DeadlockFreedom ==
    /\ \A h \in Handlers : At(h, "acquire") => Holder(Instr(h).on) # h
    /\ \A h \in Handlers :
          Blocked(h) => /\ Holder(Instr(h).on) \in Running
                        /\ ~Blocked(Holder(Instr(h).on))
    /\ Running # {} => \E h \in Running : ~Blocked(h)

\* the reaper saves the queue under queue_lock while a start_session and a
\* close_session call wait for the lock
C37_Witness ==
    /\ queue_lock.holder = "_check_and_cleanup_sessions"
    /\ At("_check_and_cleanup_sessions", "save")
    /\ Blocked("start_session")
    /\ Blocked("close_session")

\* thread h is inside a with block on lock l of its path: past the acquisition
\* and not past the release
Within(h, l) ==
    /\ threads[h].pc > 0
    /\ \E i \in 1..(threads[h].pc - 1) :
          /\ threads[h].path[i] = Acquire(l)
          /\ \A j \in (i + 1)..(threads[h].pc - 1) : threads[h].path[j] # Release(l)

\* C38: a propagate_in_video stream holds inference_lock from its first element
\* request to its end, at its yields too; while it does, no _process_session
\* and no edit is inside its inference_lock block, and
\* cancel_propagate_in_video never waits for a lock.
C38_StreamHoldsLock ==
    /\ At("propagate_in_video", "yield") => Within("propagate_in_video", "inference_lock")
    /\ Within("propagate_in_video", "inference_lock")
          => /\ inference_lock.holder = "propagate_in_video"
             /\ ~Within("_process_session", "inference_lock")
             /\ ~Within("edit", "inference_lock")
    /\ threads["propagate_in_video"].pc > 1
          => Within("propagate_in_video", "inference_lock")
    /\ ~Blocked("cancel_propagate_in_video")

\* a stream is suspended at a yield, an initialisation waits for inference_lock
\* and cancel_propagate_in_video sets the flag
C38_Witness ==
    /\ At("propagate_in_video", "yield")
    /\ Blocked("_process_session")
    /\ Instr("_process_session").on = "inference_lock"
    /\ At("cancel_propagate_in_video", "write")

\* the __clear_session_state call of close_session(s) pops in this step
ClearStep(s) ==
    /\ s \in DOMAIN close_pending
    /\ close_pending[s] = "clear"
    /\ \/ s \notin DOMAIN close_pending'
       \/ close_pending'[s] # "clear"

\* close_session(s) returns in this step
CloseReturn(s) == s \in DOMAIN close_pending /\ s \notin DOMAIN close_pending'

\* C39: close_session(X) returns success = true exactly when session_states held
\* an entry of X when __clear_session_state popped it; a close that finds no
\* entry (X only queued, or its initialisation not finished) returns success =
\* false and leaves the row of X marked completed.
C39_CloseSuccess ==
    [][\A s \in SessionIds :
          /\ ClearStep(s)
             => IF s \in DOMAIN session_states
                THEN /\ CloseReturn(s)
                     /\ s \notin DOMAIN session_states'
                     /\ response'.op = "close_session"
                     /\ response'.session_id = s
                     /\ response'.success
                ELSE /\ s \in DOMAIN close_pending'
                     /\ close_pending'[s] = "mark"
                     /\ response'.op # "close_session"
          /\ (CloseReturn(s) /\ close_pending[s] = "mark")
             => /\ response'.op = "close_session"
                /\ response'.session_id = s
                /\ ~response'.success
                /\ s \in DOMAIN session_metadata'
                      => session_metadata'[s].status = "completed"
          /\ (response'.op = "close_session" /\ response'.session_id = s)
             => CloseReturn(s)]_vars

\* close_session on a session whose init_state call is running has returned
\* success = false: the session is out of the active set and marked completed
C39_Witness ==
    \E s \in SessionIds :
       /\ response.op = "close_session"
       /\ response.session_id = s
       /\ ~response.success
       /\ inference_lock = [holder |-> "init", session_id |-> s]
       /\ s \notin active_sessions
       /\ session_metadata[s].status = "completed"

\* C40: the scan of a reaper tick selects only ids that have an entry in
\* session_states; a tick removes from session_queue only an entry of an id that
\* holds a model state, never one of a session that is queued without a state;
\* and a tick that finds no expired id changes no state, saves nothing and
\* starts no pump.
C40_ReaperScope ==
    [][/\ (reaper.pc = "idle" /\ ReaperStep)
          => reaper'.expired \subseteq DOMAIN session_states
       /\ (ReaperStep /\ session_queue' # session_queue)
          => \E s \in DOMAIN session_states :
                /\ s \in QueueIds(session_queue)
                /\ session_queue' = RemoveFirst(session_queue, s)
       /\ (/\ reaper.pc = "idle"
           /\ \A s \in DOMAIN session_states :
                 now - session_states[s].last_active_time <= session_timeout)
          => reaper' = reaper]_vars

====
